---- MODULE Spec2Model ----
(***************************************************************************)
(* Model of the slot-filling prompt dialog (PromptDialog) and of the       *)
(* in-memory conversation store (MemoryBrain) it persists to.              *)
(*                                                                         *)
(* JavaScript values are tagged records: undefined, null, an extracted     *)
(* entity (candidate) and an array of entities.  A JavaScript object used  *)
(* as a map is a function over Names whose absent keys hold Absent.        *)
(***************************************************************************)
EXTENDS Integers, Sequences, FiniteSets, TLC

\* ------------------------------------------------------------------ bounds
\* longest candidate list produced by the extractor for one message
MaxCandidates == 2

\* ------------------------------------------------------------ JS values
Undefined == [t |-> "undefined"]
Null == [t |-> "null"]
Absent == [t |-> "absent"]
Bool(b) == [t |-> "boolean", v |-> b]
Str(s) == [t |-> "string", v |-> s]
Array(s) == [t |-> "array", items |-> s]

\* an extracted ("raw") entity: { dim, start, end, values }
Candidate(d, s, e, v) ==
  [t |-> "entity", dim |-> d, start |-> s, end |-> e, values |-> <<[value |-> v]>>]

\* JavaScript truthiness of the values used here (every object is truthy)
Truthy(x) ==
  IF "t" \notin DOMAIN x THEN TRUE
  ELSE CASE x.t = "boolean" -> x.v
         [] x.t = "string" -> x.v # ""
         [] x.t \in {"undefined", "null", "absent"} -> FALSE
         [] OTHER -> TRUE

\* property lookup obj[key]: undefined when the key is not there
Get(obj, key) ==
  IF key \in DOMAIN obj /\ obj[key] # Absent THEN obj[key] ELSE Undefined

Names == {"a", "b"}
\* String(parameters): the key an object is coerced to in dialogEntities[parameters]
ObjectKey == "[object Object]"
EmptyObject == [n \in Names |-> Absent]
Keys(obj) == {n \in DOMAIN obj : obj[n] # Absent}

\* ----------------------------------------------------- helper functions
areEntitiesPositionsEqual(entityA, entityB) ==
  entityA.start = entityB.start /\ entityA.end = entityB.end

\* variant: drops only the consumed entity itself
filterSameEntity(entities, entity) ==
  SelectSeq(entities, LAMBDA e : e # entity)

filterSamePositionEntities(entities, entity) ==
  SelectSeq(entities, LAMBDA e : ~areEntitiesPositionsEqual(e, entity))

\* ------------------------------------------------- parameter functions
\* priority: unset, a Number, or a Function returning a Number
Unset == [k |-> "unset"]
Num(n) == [k |-> "num", n |-> n]
Fn(n) == [k |-> "fn", n |-> n]

\* the default isFulfilled of computeEntities, and two configured ones:
\* "two" wants an array of at least two entities, "optional" is always met
isFulfilled(parameter, entity) ==
  CASE parameter.isFulfilled = "default" -> entity # Undefined
    [] parameter.isFulfilled = "two" -> entity.t = "array" /\ Len(entity.items) >= 2
    [] parameter.isFulfilled = "optional" -> TRUE

\* the default reducer of computeEntities, and three configured ones
reducer(parameter, oldEntities, newEntities) ==
  CASE parameter.reducer = "replace" -> newEntities
    [] parameter.reducer = "append" ->
         Array((IF oldEntities.t = "array" THEN oldEntities.items ELSE <<>>)
               \o <<newEntities>>)
    [] parameter.reducer = "null" -> Null
    [] parameter.reducer = "undefined" -> Undefined

\* defaults, overridden by what the dialog parameters set
NormalizeParameter(p) ==
  [dim |-> p.dim,
   reducer |-> IF p.reducer = "unset" THEN "replace" ELSE p.reducer,
   isFulfilled |-> IF p.isFulfilled = "unset" THEN "default" ELSE p.isFulfilled,
   priority |-> IF p.priority = Unset THEN Num(0) ELSE p.priority]

PriorityValue(priority) == priority.n

\* --------------------------------------- matchParameterWithCandidates
\* variant: the reducer is applied whether or not the value is fulfilled
MatchStepAlwaysReduce(parameter, acc, candidate) ==
  [remainingCandidates |->
     filterSamePositionEntities(acc.remainingCandidates, candidate),
   newValue |-> reducer(parameter, acc.newValue, candidate),
   consumed |-> Append(acc.consumed, candidate)]

\* variant: a candidate met when the value is fulfilled is dropped from the pool
MatchStepDropSkipped(parameter, acc, candidate) ==
  IF isFulfilled(parameter, acc.newValue)
  THEN [acc EXCEPT !.remainingCandidates =
          filterSamePositionEntities(acc.remainingCandidates, candidate)]
  ELSE [remainingCandidates |->
          filterSamePositionEntities(acc.remainingCandidates, candidate),
        newValue |-> reducer(parameter, acc.newValue, candidate),
        consumed |-> Append(acc.consumed, candidate)]

\* one step of the reduce; consumed records which candidates went to the reducer
MatchStep(parameter, acc, candidate) ==
  IF isFulfilled(parameter, acc.newValue)
  THEN acc
  ELSE [remainingCandidates |->
          filterSamePositionEntities(acc.remainingCandidates, candidate),
        newValue |-> reducer(parameter, acc.newValue, candidate),
        consumed |-> Append(acc.consumed, candidate)]

RECURSIVE MatchFold(_, _, _)
MatchFold(parameter, acc, list) ==
  IF list = <<>> THEN acc
  ELSE MatchFold(parameter, MatchStep(parameter, acc, Head(list)), Tail(list))

\* variant: the reduce starts from undefined instead of the initial value
matchFromUndefined(parameter, candidates, initialValue) ==
  MatchFold(parameter,
            [remainingCandidates |-> candidates,
             newValue |-> Undefined,
             consumed |-> <<>>],
            SelectSeq(candidates, LAMBDA c : c.dim = parameter.dim))

matchParameterWithCandidates(parameter, candidates, initialValue) ==
  MatchFold(parameter,
            [remainingCandidates |-> candidates,
             newValue |-> initialValue,
             consumed |-> <<>>],
            SelectSeq(candidates, LAMBDA c : c.dim = parameter.dim))

\* ------------------------------------------------------ computeEntities
\* variant: the comparator valueA - valueB (lowest priority first)
CompareAscending(parameters, nameA, nameB) ==
  PriorityValue(parameters[nameA].priority) - PriorityValue(parameters[nameB].priority)

\* Array.prototype.sort with the comparator valueB - valueA (stable)
Compare(parameters, nameA, nameB) ==
  PriorityValue(parameters[nameB].priority) - PriorityValue(parameters[nameA].priority)

\* variant: an element also moves in front of elements it ties with
RECURSIVE InsertSortedBeforeTies(_, _, _)
InsertSortedBeforeTies(parameters, sorted, name) ==
  IF sorted = <<>> THEN <<name>>
  ELSE IF Compare(parameters, sorted[Len(sorted)], name) >= 0
       THEN Append(InsertSortedBeforeTies(parameters,
                                          SubSeq(sorted, 1, Len(sorted) - 1), name),
                   sorted[Len(sorted)])
       ELSE Append(sorted, name)

RECURSIVE InsertSorted(_, _, _)
InsertSorted(parameters, sorted, name) ==
  IF sorted = <<>> THEN <<name>>
  ELSE IF Compare(parameters, sorted[Len(sorted)], name) > 0
       THEN Append(InsertSorted(parameters, SubSeq(sorted, 1, Len(sorted) - 1), name),
                   sorted[Len(sorted)])
       ELSE Append(sorted, name)

RECURSIVE SortByPriority(_, _)
SortByPriority(parameters, names) ==
  IF names = <<>> THEN <<>>
  ELSE InsertSorted(parameters,
                    SortByPriority(parameters, SubSeq(names, 1, Len(names) - 1)),
                    names[Len(names)])

\* "We do not look for entities that are already fulfilled"
NotFulfilledFilter(parameters, names, dialogEntities) ==
  SelectSeq(names,
            LAMBDA name : ~isFulfilled(parameters[name], Get(dialogEntities, ObjectKey)))

ComputeStep(parameters, dialogEntities, acc, name) ==
  LET m == matchParameterWithCandidates(parameters[name], acc.remainingCandidates,
                                        Get(dialogEntities, name))
  IN [matchedEntities |-> [acc.matchedEntities EXCEPT ![name] = m.newValue],
      remainingCandidates |-> m.remainingCandidates,
      missingEntities |-> IF isFulfilled(parameters[name], m.newValue)
                          THEN acc.missingEntities \ {name}
                          ELSE acc.missingEntities,
      consumed |-> [acc.consumed EXCEPT ![name] = m.consumed]]

RECURSIVE ComputeFold(_, _, _, _)
ComputeFold(parameters, dialogEntities, acc, names) ==
  IF names = <<>> THEN acc
  ELSE ComputeFold(parameters, dialogEntities,
                   ComputeStep(parameters, dialogEntities, acc, Head(names)),
                   Tail(names))

\* dialogParameters = [order: Object.keys order, spec: name -> parameter]
computeEntities(candidates, dialogParameters, dialogEntities) ==
  LET order == dialogParameters.order
      parameters == [n \in Names |->
                       IF \E i \in 1..Len(order) : order[i] = n
                       THEN NormalizeParameter(dialogParameters.spec[n])
                       ELSE Absent]
      result == ComputeFold(parameters, dialogEntities,
                  [matchedEntities |-> dialogEntities,
                   remainingCandidates |-> candidates,
                   missingEntities |-> Keys(parameters),
                   consumed |-> [n \in Names |-> <<>>]],
                  SortByPriority(parameters,
                                 NotFulfilledFilter(parameters, order, dialogEntities)))
  IN [matchedEntities |-> result.matchedEntities,
      missingEntities |-> result.missingEntities,
      remainingCandidates |-> result.remainingCandidates,
      consumed |-> result.consumed,
      sorted |-> SortByPriority(parameters,
                                NotFulfilledFilter(parameters, order, dialogEntities))]

\* ----------------------------------------------------------------- state
VARIABLES
  entities,        \* this.parameters.entities: the dialog parameters
  candidates,      \* the message entities of the current turn
  dialogEntities,  \* the entities already matched, as loaded for this turn
  computed,        \* what computeEntities returned this turn
  users,           \* MemoryBrain.users
  status,          \* the dialog status the caller holds between turns
  entry,           \* the status the current turn was executed with
  pc,              \* where the current turn is suspended
  trace,           \* the brain and display calls the current turn has made
  outcome          \* how the last finished turn ended

vars == <<entities, candidates, dialogEntities, computed, users, status, entry,
          pc, trace, outcome>>

NotComputed == [t |-> "none"]

\* ------------------------------------------------- inputs of the resolver
Paris == Candidate("city", 13, 18, Str("Paris"))
ParisLocation == Candidate("location", 13, 18, Str("Paris"))
Lyon == Candidate("city", 22, 26, Str("Lyon"))
\* entities matched in earlier turns
Old == Candidate("city", 0, 5, Str("Rome"))
Old2 == Candidate("city", 9, 14, Str("Milan"))

RECURSIVE ListsUpTo(_, _)
ListsUpTo(S, n) ==
  IF n = 0 THEN {<<>>}
  ELSE LET shorter == ListsUpTo(S, n - 1)
       IN shorter \cup {Append(l, c) : l \in {x \in shorter : Len(x) = n - 1}, c \in S}

ResolverCandidates == {Paris, ParisLocation, Lyon}

\* what a dialog may set on a parameter, besides its dim
ParameterSettings ==
  {[priority |-> Unset, isFulfilled |-> "unset", reducer |-> "unset"],
   [priority |-> Num(1), isFulfilled |-> "unset", reducer |-> "unset"],
   [priority |-> Num(5), isFulfilled |-> "unset", reducer |-> "unset"],
   [priority |-> Fn(1), isFulfilled |-> "unset", reducer |-> "unset"],
   [priority |-> Fn(5), isFulfilled |-> "unset", reducer |-> "unset"],
   [priority |-> Unset, isFulfilled |-> "two", reducer |-> "append"],
   [priority |-> Unset, isFulfilled |-> "optional", reducer |-> "unset"],
   [priority |-> Unset, isFulfilled |-> "unset", reducer |-> "null"],
   [priority |-> Unset, isFulfilled |-> "unset", reducer |-> "undefined"]}

Parameter(dim, settings) ==
  [dim |-> dim, priority |-> settings.priority,
   isFulfilled |-> settings.isFulfilled, reducer |-> settings.reducer]

\* { a: {dim: 'city', ...} } and { a: {dim: 'city', ...}, b: {dim: ..., ...} }
ResolverParameters ==
  {[order |-> <<"a">>, spec |-> [n \in Names |-> IF n = "a" THEN Parameter("city", sa) ELSE Absent]] :
     sa \in ParameterSettings}
  \cup
  {[order |-> <<"a", "b">>,
    spec |-> [n \in Names |-> IF n = "a" THEN Parameter("city", sa) ELSE Parameter(db, sb)]] :
     sa \in ParameterSettings, sb \in ParameterSettings, db \in {"city", "location"}}

PriorValues == {Absent, Null, Old, Array(<<Old>>), Array(<<Old, Old2>>)}

PriorEntities(dialogParameters) ==
  {d \in [Names -> PriorValues] :
     \A n \in Names : dialogParameters.spec[n] = Absent => d[n] = Absent}

Declared(n) == entities.spec[n] # Absent
Normalized(n) == NormalizeParameter(entities.spec[n])

\* ------------------------------------------------------------ MemoryBrain
UserIds == {"u1"}
\* the user whose messages the dialog handles, and the dialog's namespace
UserId == "u1"
Namespace == "namespace"
ConversationKeys == {Namespace, "createdAt"}
\* Date.now()
DateNow == [t |-> "number", v |-> 1509494400]
\* most conversations opened for one user
MaxConversations == 2

Resolved(v) == [ok |-> TRUE, value |-> v]
Rejected == [ok |-> FALSE, value |-> Undefined]

NewUser == [t |-> "user", conversations |-> <<>>]
\* { createdAt: Date.now() }
NewConversation == [k \in ConversationKeys |-> IF k = "createdAt" THEN DateNow ELSE Absent]

getUser(userId) ==
  IF users[userId] # Absent THEN Resolved(users[userId]) ELSE Rejected

\* variant: _.first(user.conversations)
getFirstConversation(userId) ==
  LET user == getUser(userId)
  IN IF ~user.ok THEN Rejected
     ELSE IF user.value.conversations = <<>> THEN Resolved(Undefined)
     ELSE Resolved(user.value.conversations[1])

\* _.last(user.conversations)
getLastConversation(userId) ==
  LET user == getUser(userId)
  IN IF ~user.ok THEN Rejected
     ELSE IF user.value.conversations = <<>> THEN Resolved(Undefined)
     ELSE Resolved(user.value.conversations[Len(user.value.conversations)])

\* conversation[key] throws on an undefined conversation: the promise rejects
conversationGet(userId, key) ==
  LET conversation == getLastConversation(userId)
  IN IF conversation.ok /\ conversation.value # Undefined
     THEN Resolved(Get(conversation.value, key))
     ELSE Rejected

\* variant: the defined values of the stored map survive the write
conversationSetDefined(userId, key, value) ==
  LET conversation == getLastConversation(userId)
      old == IF conversation.ok /\ conversation.value # Undefined
             THEN Get(conversation.value, key) ELSE Undefined
      kept == IF old = Undefined THEN value
              ELSE [n \in DOMAIN value |->
                      IF value[n] \in {Absent, Undefined, Null} THEN old[n]
                      ELSE value[n]]
  IN IF conversation.ok /\ conversation.value # Undefined
     THEN Resolved([users EXCEPT
                      ![userId].conversations[Len(users[userId].conversations)] =
                        [conversation.value EXCEPT ![key] = kept]])
     ELSE Rejected

\* conversation[key] = value on the user's last conversation
conversationSet(userId, key, value) ==
  LET conversation == getLastConversation(userId)
  IN IF conversation.ok /\ conversation.value # Undefined
     THEN Resolved([users EXCEPT
                      ![userId].conversations[Len(users[userId].conversations)] =
                        [conversation.value EXCEPT ![key] = value]])
     ELSE Rejected

addUser(userId) ==
  /\ users[userId] = Absent
  /\ users' = [users EXCEPT ![userId] = NewUser]
  /\ UNCHANGED <<entities, candidates, dialogEntities, computed, status, entry,
                 pc, trace, outcome>>

addConversation(userId) ==
  /\ getUser(userId).ok
  /\ Len(users[userId].conversations) < MaxConversations
  /\ users' = [users EXCEPT ![userId].conversations = Append(@, NewConversation)]
  /\ UNCHANGED <<entities, candidates, dialogEntities, computed, status, entry,
                 pc, trace, outcome>>

clean ==
  /\ users' = [u \in DOMAIN users |-> Absent]
  /\ users' # users
  /\ UNCHANGED <<entities, candidates, dialogEntities, computed, status, entry,
                 pc, trace, outcome>>

\* ----------------------------------------------------------- PromptDialog
STATUS_BLOCKED == "blocked"
STATUS_WAITING == "waiting"
STATUS_READY == "ready"
STATUS_COMPLETED == "completed"
STATUS_DISCARDED == "discarded"

Yes == Candidate("system:boolean", 0, 3, Bool(TRUE))
No == Candidate("system:boolean", 0, 2, Bool(FALSE))
DialogCandidates == {Paris, Yes, No}

\* { a: {dim: 'city'} }, { a: {dim: 'city'}, b: {dim: 'location'} } and
\* { a: {dim: 'city', isFulfilled: two, reducer: append} }
DialogParameters ==
  {[order |-> <<"a">>,
    spec |-> [n \in Names |->
                IF n = "a"
                THEN [dim |-> "city", priority |-> Unset,
                      isFulfilled |-> "unset", reducer |-> "unset"]
                ELSE Absent]],
   [order |-> <<"a", "b">>,
    spec |-> [n \in Names |->
                [dim |-> IF n = "a" THEN "city" ELSE "location", priority |-> Unset,
                 isFulfilled |-> "unset", reducer |-> "unset"]]],
   [order |-> <<"a">>,
    spec |-> [n \in Names |->
                IF n = "a"
                THEN [dim |-> "city", priority |-> Unset,
                      isFulfilled |-> "two", reducer |-> "append"]
                ELSE Absent]]}

\* the calls a turn makes on its collaborators, in order
GetCall == [op |-> "conversationGet", view |-> "", arg |-> Undefined]
SetCall(value) == [op |-> "conversationSet", view |-> "", arg |-> value]
DisplayCall(view, context) == [op |-> "display", view |-> view, arg |-> context]

\* the promise of execute resolves with { status } or rejects
Return(newStatus) ==
  /\ pc' = "idle"
  /\ status' = newStatus
  /\ outcome' = [kind |-> "returned", status |-> newStatus]

Reject ==
  /\ pc' = "idle"
  /\ status' = status
  /\ outcome' = [kind |-> "rejected", status |-> "none"]

\* Dialog.display: renders a view of the dialog for the user; may reject
display(view, context, ok) ==
  /\ trace' = Append(trace, DisplayCall(view, context))
  /\ ok \in BOOLEAN

\* the for loop of executeWhenWaiting stops at the first system:boolean candidate
\* variant: the loop keeps the last system:boolean candidate
RECURSIVE LastBoolean(_)
LastBoolean(list) ==
  IF list = <<>> THEN Undefined
  ELSE IF list[Len(list)].dim = "system:boolean" THEN list[Len(list)]
  ELSE LastBoolean(SubSeq(list, 1, Len(list) - 1))

RECURSIVE FirstBoolean(_)
FirstBoolean(list) ==
  IF list = <<>> THEN Undefined
  ELSE IF Head(list).dim = "system:boolean" THEN Head(list)
  ELSE FirstBoolean(Tail(list))

\* variant: candidate.values[0], the value object itself
booleanValueObject(candidate) == candidate.values[1]

\* candidate.values[0].value
booleanValue(candidate) == candidate.values[1].value

\* missingEntities.length: a property of a map from names to parameters
length(missingEntities) ==
  IF "length" \in missingEntities THEN [t |-> "object"] ELSE Undefined

Number(n) == [t |-> "number", v |-> n]

Pending(at) ==
  /\ pc' = at
  /\ status' = status
  /\ outcome' = [kind |-> "pending", status |-> "none"]

\* variant: without a boolean candidate the dialog keeps waiting
executeWhenWaitingStay(messageEntities) ==
  IF FirstBoolean(messageEntities) = Undefined
  THEN Return(STATUS_WAITING)
  ELSE IF Truthy(booleanValue(FirstBoolean(messageEntities)))
       THEN Pending("confirm")
       ELSE Pending("discard")

\* executeWhenWaiting up to its first await
executeWhenWaiting(messageEntities) ==
  IF FirstBoolean(messageEntities) = Undefined
  THEN Return(STATUS_BLOCKED)
  ELSE IF Truthy(booleanValue(FirstBoolean(messageEntities)))
       THEN Pending("confirm")
       ELSE Pending("discard")

\* variant: the default case goes to executeWhenBlocked
DispatchDefaultBlocked(s) ==
  CASE s = STATUS_WAITING -> "executeWhenWaiting"
    [] OTHER -> "executeWhenBlocked"

\* switch (status) of execute
Dispatch(s) ==
  CASE s = STATUS_BLOCKED -> "executeWhenBlocked"
    [] s = STATUS_WAITING -> "executeWhenWaiting"
    [] OTHER -> "executeWhenReady"

\* execute, run up to the first await of the handler it dispatches to
execute(messageEntities) ==
  /\ pc = "idle"
  /\ entry' = status
  /\ candidates' = messageEntities
  /\ trace' = <<>>
  /\ dialogEntities' = EmptyObject
  /\ computed' = NotComputed
  /\ CASE Dispatch(status) = "executeWhenBlocked" -> Pending("ask")
       [] Dispatch(status) = "executeWhenWaiting" -> executeWhenWaiting(messageEntities)
       [] OTHER -> Pending("get")
  /\ UNCHANGED <<entities, users>>

\* variant: the awaited display of 'ask' leaves the dialog blocked
executeWhenBlockedStay(ok) ==
  /\ pc = "ask"
  /\ display("ask", Undefined, ok)
  /\ IF ok THEN Return(STATUS_BLOCKED) ELSE Reject
  /\ UNCHANGED <<entities, candidates, dialogEntities, computed, users, entry>>

\* await this.display(adapter, userId, 'ask')
executeWhenBlocked(ok) ==
  /\ pc = "ask"
  /\ display("ask", Undefined, ok)
  /\ IF ok THEN Return(STATUS_WAITING) ELSE Reject
  /\ UNCHANGED <<entities, candidates, dialogEntities, computed, users, entry>>

\* await this.display(adapter, userId, 'confirm'), then executeWhenReady
executeWhenWaitingConfirm(ok) ==
  /\ pc = "confirm"
  /\ display("confirm", Undefined, ok)
  /\ IF ok
     THEN pc' = "get" /\ UNCHANGED <<status, outcome>>
     ELSE Reject
  /\ UNCHANGED <<entities, candidates, dialogEntities, computed, users, entry>>

\* await this.display(adapter, userId, 'discard')
executeWhenWaitingDiscard(ok) ==
  /\ pc = "discard"
  /\ display("discard", Undefined, ok)
  /\ IF ok THEN Return(STATUS_DISCARDED) ELSE Reject
  /\ UNCHANGED <<entities, candidates, dialogEntities, computed, users, entry>>

\* ------------------------------------------ the brain on its own
BrainUserIds == {"u1", "u2"}
BrainValues == {EmptyObject, [EmptyObject EXCEPT !["a"] = Paris]}

\* a conversationSet call that resolves
conversationSetCall(userId, key, value) ==
  /\ conversationSet(userId, key, value).ok
  /\ users' = conversationSet(userId, key, value).value
  /\ users' # users
  /\ UNCHANGED <<entities, candidates, dialogEntities, computed, status, entry,
                 pc, trace, outcome>>

InitBrain ==
  /\ users = [u \in BrainUserIds |-> Absent]
  /\ entities \in {e \in DialogParameters : e.order = <<"a", "b">>}
  /\ candidates = <<>>
  /\ dialogEntities = EmptyObject
  /\ computed = NotComputed
  /\ status = "none"
  /\ entry = "none"
  /\ pc = "brain"
  /\ trace = <<>>
  /\ outcome = [kind |-> "none", status |-> "none"]

NextBrain ==
  \/ \E userId \in BrainUserIds : addUser(userId)
  \/ \E userId \in BrainUserIds : addConversation(userId)
  \/ clean
  \/ \E userId \in BrainUserIds : \E value \in BrainValues :
       conversationSetCall(userId, Namespace, value)

SpecBrain == InitBrain /\ [][NextBrain]_vars

\* variant: no "|| {}": reading a parameter of an undefined record throws
executeWhenReadyGetNoDefault ==
  /\ pc = "get"
  /\ trace' = Append(trace, GetCall)
  /\ LET loaded == conversationGet(UserId, Namespace)
     IN IF loaded.ok /\ Truthy(loaded.value)
        THEN /\ dialogEntities' = loaded.value
             /\ computed' = computeEntities(candidates, entities, dialogEntities')
             /\ pc' = "set"
             /\ UNCHANGED <<status, outcome>>
        ELSE /\ Reject
             /\ UNCHANGED <<dialogEntities, computed>>
  /\ UNCHANGED <<entities, candidates, users, entry>>

\* (await this.brain.conversationGet(userId, namespace)) || {}, computeEntities
executeWhenReadyGet ==
  /\ pc = "get"
  /\ trace' = Append(trace, GetCall)
  /\ LET loaded == conversationGet(UserId, Namespace)
     IN IF loaded.ok
        THEN /\ dialogEntities' =
                  IF Truthy(loaded.value) THEN loaded.value ELSE EmptyObject
             /\ computed' = computeEntities(candidates, entities, dialogEntities')
             /\ pc' = "set"
             /\ UNCHANGED <<status, outcome>>
        ELSE /\ Reject
             /\ UNCHANGED <<dialogEntities, computed>>
  /\ UNCHANGED <<entities, candidates, users, entry>>

\* variant: a rejected write is caught and the turn goes on
executeWhenReadySetCaught ==
  /\ pc = "set"
  /\ trace' = Append(trace, SetCall(computed.matchedEntities))
  /\ LET stored == conversationSet(UserId, Namespace, computed.matchedEntities)
     IN /\ users' = IF stored.ok THEN stored.value ELSE users
        /\ pc' = "entities"
        /\ UNCHANGED <<status, outcome>>
  /\ UNCHANGED <<entities, candidates, dialogEntities, computed, entry>>

\* variant: the entities loaded for the turn are written back
executeWhenReadySetLoaded ==
  /\ pc = "set"
  /\ trace' = Append(trace, SetCall(dialogEntities))
  /\ LET stored == conversationSet(UserId, Namespace, dialogEntities)
     IN IF stored.ok
        THEN /\ users' = stored.value
             /\ pc' = "entities"
             /\ UNCHANGED <<status, outcome>>
        ELSE /\ Reject
             /\ UNCHANGED users
  /\ UNCHANGED <<entities, candidates, dialogEntities, computed, entry>>

\* await this.brain.conversationSet(userId, namespace, matchedEntities)
executeWhenReadySet ==
  /\ pc = "set"
  /\ trace' = Append(trace, SetCall(computed.matchedEntities))
  /\ LET stored == conversationSet(UserId, Namespace, computed.matchedEntities)
     IN IF stored.ok
        THEN /\ users' = stored.value
             /\ pc' = "entities"
             /\ UNCHANGED <<status, outcome>>
        ELSE /\ Reject
             /\ UNCHANGED users
  /\ UNCHANGED <<entities, candidates, dialogEntities, computed, entry>>

executeWhenCompleted == Return(STATUS_COMPLETED)

\* await this.display(..., 'entities', {...}); if (missingEntities.length === 0)
executeWhenReadyDisplay(ok) ==
  /\ pc = "entities"
  /\ display("entities",
             [matchedEntities |-> computed.matchedEntities,
              missingEntities |-> computed.missingEntities], ok)
  /\ IF ~ok THEN Reject
     ELSE IF length(computed.missingEntities) = Number(0)
          THEN executeWhenCompleted
          ELSE Return(STATUS_READY)
  /\ UNCHANGED <<entities, candidates, dialogEntities, computed, users, entry>>

Init ==
  /\ entities \in DialogParameters
  /\ candidates = <<>>
  /\ dialogEntities = EmptyObject
  /\ computed = NotComputed
  /\ users = [u \in UserIds |-> Absent]
  /\ status = STATUS_BLOCKED
  /\ entry = "none"
  /\ pc = "idle"
  /\ trace = <<>>
  /\ outcome = [kind |-> "none", status |-> "none"]

Next ==
  \/ \E userId \in UserIds : addUser(userId)
  \/ \E userId \in UserIds : addConversation(userId)
  \/ clean
  \/ \E messageEntities \in ListsUpTo(DialogCandidates, MaxCandidates) :
       execute(messageEntities)
  \/ \E ok \in BOOLEAN : executeWhenBlocked(ok)
  \/ \E ok \in BOOLEAN : executeWhenWaitingConfirm(ok)
  \/ \E ok \in BOOLEAN : executeWhenWaitingDiscard(ok)
  \/ executeWhenReadyGet
  \/ executeWhenReadySet
  \/ \E ok \in BOOLEAN : executeWhenReadyDisplay(ok)

Spec == Init /\ [][Next]_vars

\* -------------------------------------------------- claims on the dialog
TurnOver == pc = "idle" /\ outcome.kind \in {"returned", "rejected"}
Returned == pc = "idle" /\ outcome.kind = "returned"
EntitiesContext ==
  [matchedEntities |-> computed.matchedEntities,
   missingEntities |-> computed.missingEntities]
\* store load, resolve, persist, render 'entities'
ReadyCalls ==
  <<GetCall, SetCall(computed.matchedEntities), DisplayCall("entities", EntitiesContext)>>
NoBooleanIn(list) == \A i \in 1..Len(list) : list[i].dim # "system:boolean"
\* the first system:boolean candidate of the list is truthy (or falsy)
FirstBooleanIsTruthy(list, truthy) ==
  \E i \in 1..Len(list) :
    /\ list[i].dim = "system:boolean"
    /\ Truthy(list[i].values[1].value) = truthy
    /\ \A j \in 1..(i - 1) : list[j].dim # "system:boolean"
HasTruthyBoolean(list) ==
  \E i \in 1..Len(list) :
    list[i].dim = "system:boolean" /\ Truthy(list[i].values[1].value)

\* C1: a turn that went through READY handling returns COMPLETED exactly when
\* missingEntities has no keys after the turn, and READY otherwise.
C1_CompletedIffNothingMissing ==
  (Returned /\ entry \in {STATUS_READY, STATUS_COMPLETED, STATUS_DISCARDED}) =>
    outcome.status =
      IF computed.missingEntities = {} THEN STATUS_COMPLETED ELSE STATUS_READY

\* C2 as stated: a WAITING turn without a system:boolean candidate renders
\* nothing and returns WAITING.
C2_StaysWaiting ==
  (Returned /\ entry = STATUS_WAITING /\ NoBooleanIn(candidates)) =>
    trace = <<>> /\ outcome.status = STATUS_WAITING

\* C2 amended: a WAITING turn without a system:boolean candidate renders
\* nothing, does not touch the store and returns BLOCKED.
C2_BackToBlocked ==
  (TurnOver /\ entry = STATUS_WAITING /\ NoBooleanIn(candidates)) =>
    trace = <<>> /\ outcome.kind = "returned" /\ outcome.status = STATUS_BLOCKED

C2_Witness ==
  /\ Returned /\ entry = STATUS_WAITING
  /\ candidates = <<Paris>>
  /\ outcome.status = STATUS_BLOCKED

\* C3 as stated: a WAITING turn whose candidates contain some system:boolean
\* candidate with a truthy first value renders 'confirm', then runs READY
\* handling on the same candidates, and returns what READY handling returns.
C3_AnyTruthyBooleanConfirms ==
  (Returned /\ entry = STATUS_WAITING /\ HasTruthyBoolean(candidates)) =>
    /\ computed # NotComputed
    /\ trace = <<DisplayCall("confirm", Undefined)>> \o ReadyCalls
    /\ computed = computeEntities(candidates, entities, dialogEntities)
    /\ outcome.status \in {STATUS_READY, STATUS_COMPLETED}

\* C3 amended: a WAITING turn whose first system:boolean candidate has a
\* truthy first value renders 'confirm', then runs READY handling on the same
\* candidates (load, resolve, persist, render 'entities'), and returns what
\* READY handling returns.
C3_FirstTruthyBooleanConfirms ==
  (Returned /\ entry = STATUS_WAITING /\ FirstBooleanIsTruthy(candidates, TRUE)) =>
    /\ computed # NotComputed
    /\ trace = <<DisplayCall("confirm", Undefined)>> \o ReadyCalls
    /\ computed = computeEntities(candidates, entities, dialogEntities)
    /\ outcome.status \in {STATUS_READY, STATUS_COMPLETED}

C3_Witness ==
  /\ Returned /\ entry = STATUS_WAITING
  /\ candidates = <<Yes, No>>
  /\ Len(trace) = 4
  /\ trace[1].view = "confirm"
  /\ trace[4].view = "entities"

\* C4: a WAITING turn whose first system:boolean candidate has a falsy first
\* value renders 'discard' and nothing else, makes no call on the store, and
\* returns DISCARDED.
C4_FalsyBooleanDiscards ==
  (TurnOver /\ entry = STATUS_WAITING /\ FirstBooleanIsTruthy(candidates, FALSE)) =>
    /\ trace = <<DisplayCall("discard", Undefined)>>
    /\ outcome.kind = "returned" => outcome.status = STATUS_DISCARDED

C4_Witness ==
  /\ Returned /\ entry = STATUS_WAITING
  /\ candidates = <<Paris, No>>
  /\ outcome.status = STATUS_DISCARDED
  /\ trace = <<DisplayCall("discard", Undefined)>>

\* C5: a BLOCKED turn, whatever its candidates, renders 'ask' exactly once,
\* makes no call on the store, and returns WAITING.
C5_BlockedAsks ==
  (TurnOver /\ entry = STATUS_BLOCKED) =>
    /\ trace = <<DisplayCall("ask", Undefined)>>
    /\ outcome.kind = "returned" => outcome.status = STATUS_WAITING

C5_Witness ==
  /\ Returned /\ entry = STATUS_BLOCKED
  /\ candidates = <<Yes, Paris>>
  /\ outcome.status = STATUS_WAITING

\* C6 as stated: once a turn has returned COMPLETED (or DISCARDED), every
\* later turn, executed with the status the previous one returned, returns
\* the same status.
C6_TerminalStatuses ==
  [][(status \in {STATUS_COMPLETED, STATUS_DISCARDED}) => (status' = status)]_vars

\* C6 amended: execute does not keep DISCARDED: a turn executed with the
\* status DISCARDED goes through READY handling (load, resolve, persist,
\* render 'entities') and returns READY or COMPLETED; DISCARDED is returned
\* only by a WAITING turn.
C6_DiscardedReentersReady ==
  Returned =>
    /\ entry = STATUS_DISCARDED =>
         /\ computed # NotComputed
         /\ trace = ReadyCalls
         /\ outcome.status \in {STATUS_READY, STATUS_COMPLETED}
    /\ outcome.status = STATUS_DISCARDED => entry = STATUS_WAITING

C6_Witness ==
  /\ Returned /\ entry = STATUS_DISCARDED
  /\ candidates = <<Paris>>
  /\ trace = ReadyCalls
  /\ outcome.status = STATUS_READY

\* ------------------------------------------- the resolver on its own
InitResolve ==
  /\ entities \in ResolverParameters
  /\ candidates \in ListsUpTo(ResolverCandidates, MaxCandidates)
  /\ dialogEntities \in PriorEntities(entities)
  /\ computed = NotComputed
  /\ users = [u \in UserIds |-> Absent]
  /\ status = "none"
  /\ entry = "none"
  /\ pc = "resolve"
  /\ trace = <<>>
  /\ outcome = [kind |-> "none", status |-> "none"]

Resolve ==
  /\ pc = "resolve"
  /\ computed = NotComputed
  /\ computed' = computeEntities(candidates, entities, dialogEntities)
  /\ pc' = "resolved"
  /\ UNCHANGED <<entities, candidates, dialogEntities, users, status, entry, trace, outcome>>

NextResolve == Resolve

SpecResolve == InitResolve /\ [][NextResolve]_vars

ResolveDone == pc = "resolved"

\* ------------------------------------------------ claims on the resolver
SameDim(n) == SelectSeq(candidates, LAMBDA c : c.dim = Normalized(n).dim)
FulfilledBefore(n) == isFulfilled(Normalized(n), Get(dialogEntities, n))
NoSharedSpan(listA, listB) ==
  \A i \in 1..Len(listA) : \A j \in 1..Len(listB) :
    ~areEntitiesPositionsEqual(listA[i], listB[j])

C8_PriorityLaw ==
  ResolveDone =>
    \A hi \in Names : \A lo \in Names :
      (/\ Declared(hi) /\ Declared(lo)
       /\ ~FulfilledBefore(hi) /\ ~FulfilledBefore(lo)
       /\ PriorityValue(Normalized(hi).priority) > PriorityValue(Normalized(lo).priority)
       /\ Len(candidates) = 1
       /\ Normalized(hi).dim = candidates[1].dim
       /\ Normalized(lo).dim = candidates[1].dim)
      =>
      /\ computed.consumed[hi] = <<candidates[1]>>
      /\ computed.matchedEntities[hi] =
           reducer(Normalized(hi), Get(dialogEntities, hi), candidates[1])
      /\ computed.consumed[lo] = <<>>
      /\ Get(computed.matchedEntities, lo) = Get(dialogEntities, lo)
      /\ lo \in computed.missingEntities

\* a: priority 1, b: priority 5 (declared second) => b receives the candidate
C8_Witness ==
  /\ ResolveDone
  /\ Declared("b")
  /\ entities.spec["a"].priority = Num(1)
  /\ entities.spec["b"].priority = Num(5)
  /\ entities.spec["b"].dim = "city"
  /\ candidates = <<Paris>>
  /\ dialogEntities = EmptyObject
  /\ computed.matchedEntities["b"] = Paris
  /\ computed.matchedEntities["a"] = Undefined
  /\ computed.missingEntities = {"a"}

\* C9: candidates consumed by different parameters in one pass never have the
\* same (start, end), and no candidate left in the pool has the span of a
\* consumed one.
C9_PositionalExclusivity ==
  ResolveDone =>
    /\ \A n1 \in Names : \A n2 \in Names \ {n1} :
         NoSharedSpan(computed.consumed[n1], computed.consumed[n2])
    /\ \A n \in Names :
         NoSharedSpan(computed.consumed[n], computed.remainingCandidates)

\* a city parameter consumed the span 13..18 and the location candidate with
\* the same span was withheld from the location parameter
C9_Witness ==
  /\ ResolveDone
  /\ Declared("b")
  /\ entities.spec["b"].dim = "location"
  /\ \E i \in 1..Len(candidates) : candidates[i] = ParisLocation
  /\ computed.consumed["a"] = <<Paris>>
  /\ computed.consumed["b"] = <<>>
  /\ ~isFulfilled(Normalized("b"), Get(computed.matchedEntities, "b"))

\* C10: a parameter with the default isFulfilled is in missingEntities after
\* computeEntities exactly when its resolved value is null or undefined.
C10_MissingIffNullOrUndefined ==
  ResolveDone =>
    \A n \in Names :
      (Declared(n) /\ Normalized(n).isFulfilled = "default") =>
        (n \in computed.missingEntities
           <=> Get(computed.matchedEntities, n) \in {Null, Undefined})

\* C11: with an empty candidate list computeEntities leaves every parameter's
\* value as it was in the prior map, removes from missingEntities no
\* parameter that was unfulfilled before, and gives the same result again
\* when called on its own result.
C11_EmptyInputIdempotent ==
  (ResolveDone /\ candidates = <<>>) =>
    /\ \A n \in Names :
         Get(computed.matchedEntities, n) = Get(dialogEntities, n)
    /\ \A n \in Names :
         (Declared(n) /\ ~FulfilledBefore(n)) => n \in computed.missingEntities
    /\ LET again == computeEntities(<<>>, entities, computed.matchedEntities)
       IN /\ again.matchedEntities = computed.matchedEntities
          /\ again.missingEntities = computed.missingEntities

\* a partly filled sequence and an unmatched parameter, no candidate
C11_Witness ==
  /\ ResolveDone /\ candidates = <<>>
  /\ Declared("b")
  /\ dialogEntities["a"] = Array(<<Old>>)
  /\ dialogEntities["b"] = Absent
  /\ Normalized("a").isFulfilled = "two"
  /\ computed.matchedEntities["a"] = Array(<<Old>>)
  /\ computed.matchedEntities["b"] = Undefined
  /\ computed.missingEntities = {"a", "b"}

\* ------------------------------------------- more claims on the dialog
\* the calls of READY handling in the current turn ('confirm' comes before
\* them in a WAITING turn)
ReadyTrace == IF entry = STATUS_WAITING THEN Tail(trace) ELSE trace
CallsOf(op) == {i \in 1..Len(trace) : trace[i].op = op}

\* C12: READY handling loads, resolves, writes and renders 'entities' in that
\* order, each step after the previous call has resolved: the write is
\* pending only after the load, the render only after the write; a turn that
\* returns has made exactly one write; the written value (and what the store
\* then holds) is matchedEntities of the resolution of the loaded entities,
\* and the render context is {matchedEntities, missingEntities} of it.
C12_StepOrder ==
  /\ [](/\ pc = "get" => (ReadyTrace = <<>> /\ computed = NotComputed)
        /\ pc = "set" =>
             /\ ReadyTrace = <<GetCall>>
             /\ computed = computeEntities(candidates, entities, dialogEntities)
        /\ pc = "entities" =>
             ReadyTrace = <<GetCall, SetCall(computed.matchedEntities)>>
        /\ (Returned /\ computed # NotComputed) =>
             /\ ReadyTrace = ReadyCalls
             /\ Cardinality(CallsOf("conversationSet")) = 1
             /\ computed = computeEntities(candidates, entities, dialogEntities))
  /\ [][(pc = "set" /\ pc' = "entities") =>
          conversationGet(UserId, Namespace)' = Resolved(computed.matchedEntities)]_vars

C12_Witness ==
  /\ Returned /\ entry = STATUS_READY
  /\ candidates = <<Paris>>
  /\ dialogEntities = EmptyObject
  /\ trace = <<GetCall,
               SetCall([EmptyObject EXCEPT !["a"] = Paris]),
               DisplayCall("entities",
                           [matchedEntities |-> [EmptyObject EXCEPT !["a"] = Paris],
                            missingEntities |-> {}])>>

\* C13: the load of a READY turn takes the map stored under the namespace,
\* or the empty map (without an error) when the conversation has no record
\* yet, and the write leaves under the namespace the matchedEntities resolved
\* from the turn's candidates and the loaded map; so over turns run one after
\* another each stored map is resolved from the one stored before.
C13_ProgressPersists ==
  [][/\ (pc = "get" /\ pc' # "get" /\ conversationGet(UserId, Namespace).ok) =>
          /\ pc' = "set"
          /\ dialogEntities' =
               IF conversationGet(UserId, Namespace).value = Undefined
               THEN EmptyObject
               ELSE conversationGet(UserId, Namespace).value
     /\ (pc = "set" /\ pc' = "entities") =>
          conversationGet(UserId, Namespace)' =
            Resolved(computeEntities(candidates, entities, dialogEntities).matchedEntities)
    ]_vars

\* the second turn appended to the sequence the first turn had stored
C13_Witness ==
  /\ Returned
  /\ candidates = <<Paris>>
  /\ dialogEntities["a"] = Array(<<Paris>>)
  /\ computed.matchedEntities["a"] = Array(<<Paris, Paris>>)
  /\ conversationGet(UserId, Namespace) = Resolved(computed.matchedEntities)

RejectedTurn == pc = "idle" /\ outcome.kind = "rejected"
EndsRejected(call) ==
  /\ pc' = "idle"
  /\ outcome'.kind = "rejected"
  /\ status' = status
  /\ users' = users
  /\ trace' = Append(trace, call)

SetOn(u, k) == \E v \in BrainValues : conversationSetCall(u, k, v)
OthersUntouched(u) ==
  \A w \in BrainUserIds \ {u} : \A k \in ConversationKeys :
    conversationGet(w, k)' = conversationGet(w, k)
UnknownUserRejects ==
  \A u \in BrainUserIds :
    users[u] = Absent =>
      \A k \in ConversationKeys :
        /\ ~conversationGet(u, k).ok
        /\ \A v \in BrainValues : ~conversationSet(u, k, v).ok

C16_MissingIffNotFulfilled ==
  ResolveDone =>
    /\ \A n \in Names : Declared(n) => computed.matchedEntities[n] # Absent
    /\ \A n \in Names :
         Declared(n) =>
           (n \in computed.missingEntities
              <=> ~isFulfilled(Normalized(n), Get(computed.matchedEntities, n)))
    /\ \A n \in computed.missingEntities : Declared(n)

TakenSpan(c) ==
  \E n \in Names : \E i \in 1..Len(computed.consumed[n]) :
    areEntitiesPositionsEqual(c, computed.consumed[n][i])
\* what is left of the pool is the input, in order, minus the consumed spans
OnlyConsumedSpansLeave ==
  computed.remainingCandidates = SelectSeq(candidates, LAMBDA c : ~TakenSpan(c))
\* two unfulfilled parameters with the default isFulfilled and the same
\* dimension, and exactly two candidates of that dimension, at different spans
TwoForTwo(first, second) ==
  /\ Len(computed.sorted) = 2
  /\ first = computed.sorted[1] /\ second = computed.sorted[2]
  /\ Normalized(first).isFulfilled = "default"
  /\ Normalized(second).isFulfilled = "default"
  /\ ~FulfilledBefore(first) /\ ~FulfilledBefore(second)
  /\ Normalized(first).dim = Normalized(second).dim
  /\ Len(SameDim(first)) = 2
  /\ ~areEntitiesPositionsEqual(SameDim(first)[1], SameDim(first)[2])

C18_FulfilledDoesNotStarve ==
  ResolveDone =>
    \A hi \in Names : \A lo \in Names :
      (/\ Declared(hi) /\ Declared(lo)
       /\ FulfilledBefore(hi) /\ ~FulfilledBefore(lo)
       /\ PriorityValue(Normalized(hi).priority) > PriorityValue(Normalized(lo).priority)
       /\ Normalized(hi).dim = Normalized(lo).dim
       /\ Len(SameDim(lo)) = 1)
      =>
      /\ computed.consumed[lo] = SameDim(lo)
      /\ computed.matchedEntities[lo] =
           reducer(Normalized(lo), Get(dialogEntities, lo), SameDim(lo)[1])
      /\ computed.consumed[hi] = <<>>
      /\ Get(computed.matchedEntities, hi) = Get(dialogEntities, hi)

\* b (priority 5) already holds an entity, a (priority 0) gets the candidate
C18_Witness ==
  /\ ResolveDone
  /\ Declared("b")
  /\ entities.spec["b"].priority = Num(5)
  /\ entities.spec["b"].dim = "city"
  /\ entities.spec["a"].priority = Unset
  /\ dialogEntities["b"] = Old
  /\ dialogEntities["a"] = Absent
  /\ candidates = <<Paris>>
  /\ computed.sorted = <<"b", "a">>
  /\ computed.matchedEntities["a"] = Paris
  /\ computed.matchedEntities["b"] = Old

\* C19: when the reducer of a parameter returns undefined for a candidate it
\* consumed, the value recorded for the parameter in matchedEntities is null,
\* never undefined.
C19_UndefinedBecomesNull ==
  ResolveDone =>
    \A n \in Names :
      (/\ Declared(n)
       /\ Normalized(n).reducer = "undefined"
       /\ computed.consumed[n] # <<>>) =>
        computed.matchedEntities[n] = Null

DeclaredAt(n) == CHOOSE i \in 1..Len(entities.order) : entities.order[i] = n

\* C20: parameters are matched by descending priority, those with the same
\* priority in the order they were declared; so of two unfulfilled
\* parameters with the same priority (such as the default 0) and the same
\* dimension, the one declared first gets the only candidate of the dimension.
C20_TiesByDeclaration ==
  ResolveDone =>
    /\ \A i \in 1..Len(computed.sorted) : \A j \in 1..Len(computed.sorted) :
         (i < j) =>
           LET pi == PriorityValue(Normalized(computed.sorted[i]).priority)
               pj == PriorityValue(Normalized(computed.sorted[j]).priority)
           IN /\ pi >= pj
              /\ pi = pj => DeclaredAt(computed.sorted[i]) < DeclaredAt(computed.sorted[j])
    /\ \A first \in Names : \A second \in Names :
         (/\ Declared(first) /\ Declared(second)
          /\ DeclaredAt(first) < DeclaredAt(second)
          /\ ~FulfilledBefore(first) /\ ~FulfilledBefore(second)
          /\ PriorityValue(Normalized(first).priority) =
               PriorityValue(Normalized(second).priority)
          /\ Normalized(first).dim = Normalized(second).dim
          /\ Len(SameDim(first)) = 1)
         =>
         /\ computed.consumed[first] = SameDim(first)
         /\ computed.consumed[second] = <<>>
         /\ Get(computed.matchedEntities, second) = Get(dialogEntities, second)

\* a and b both at the default priority: a, declared first, gets the city
C20_Witness ==
  /\ ResolveDone
  /\ entities.order = <<"a", "b">>
  /\ entities.spec["a"].priority = Unset
  /\ entities.spec["b"].priority = Unset
  /\ entities.spec["b"].dim = "city"
  /\ dialogEntities = EmptyObject
  /\ candidates = <<Paris>>
  /\ computed.matchedEntities["a"] = Paris
  /\ computed.matchedEntities["b"] = Undefined
  /\ computed.missingEntities = {"b"}

\* ------------------------------------------- two turns of the same user
\* Two calls of execute for the same user and namespace, both dispatched to
\* executeWhenReady. Each turn is suspended at its awaits (conversationGet,
\* conversationSet, display); between two awaits it runs without interruption.
\* Here candidates, dialogEntities, computed, status, pc and outcome hold one
\* value per turn, and trace is the order of the calls of both turns.
Turns == {"t1", "t2"}

MaxTurnCandidates == 1

TurnCall(turn, call) == [turn |-> turn, call |-> call]

\* parameters at the default priority, one or two of them
TurnSettings ==
  {s \in ParameterSettings :
     /\ s.priority = Unset
     /\ <<s.isFulfilled, s.reducer>> \in
          {<<"unset", "unset">>, <<"two", "append">>, <<"unset", "null">>}}

TurnParameters ==
  {p \in ResolverParameters :
     \A n \in Names : p.spec[n] # Absent =>
       \E s \in TurnSettings : p.spec[n] = Parameter(p.spec[n].dim, s)}

\* conversation[namespace] before the two turns: never set, {} or { a: ... }
StoredBefore == {Absent, EmptyObject, [EmptyObject EXCEPT !["a"] = Old]}

\* execute, run up to the first await of executeWhenReady
executeIn(turn, messageEntities) ==
  /\ pc[turn] = "idle"
  /\ outcome[turn].kind = "none"
  /\ Dispatch(status[turn]) = "executeWhenReady"
  /\ candidates' = [candidates EXCEPT ![turn] = messageEntities]
  /\ pc' = [pc EXCEPT ![turn] = "get"]
  /\ outcome' = [outcome EXCEPT ![turn] = [kind |-> "pending", status |-> "none"]]
  /\ UNCHANGED <<entities, dialogEntities, computed, users, status, entry, trace>>

RejectIn(turn) ==
  /\ pc' = [pc EXCEPT ![turn] = "idle"]
  /\ status' = status
  /\ outcome' = [outcome EXCEPT ![turn] = [kind |-> "rejected", status |-> "none"]]

ReturnIn(turn, newStatus) ==
  /\ pc' = [pc EXCEPT ![turn] = "idle"]
  /\ status' = [status EXCEPT ![turn] = newStatus]
  /\ outcome' = [outcome EXCEPT ![turn] = [kind |-> "returned", status |-> newStatus]]

\* (await this.brain.conversationGet(userId, namespace)) || {}, computeEntities
executeWhenReadyGetIn(turn) ==
  /\ pc[turn] = "get"
  /\ trace' = Append(trace, TurnCall(turn, GetCall))
  /\ LET loaded == conversationGet(UserId, Namespace)
     IN IF loaded.ok
        THEN /\ dialogEntities' =
                  [dialogEntities EXCEPT ![turn] =
                     IF Truthy(loaded.value) THEN loaded.value ELSE EmptyObject]
             /\ computed' =
                  [computed EXCEPT ![turn] =
                     computeEntities(candidates[turn], entities, dialogEntities'[turn])]
             /\ pc' = [pc EXCEPT ![turn] = "set"]
             /\ UNCHANGED <<status, outcome>>
        ELSE /\ RejectIn(turn)
             /\ UNCHANGED <<dialogEntities, computed>>
  /\ UNCHANGED <<entities, candidates, users, entry>>

\* await this.brain.conversationSet(userId, namespace, matchedEntities)
executeWhenReadySetIn(turn) ==
  /\ pc[turn] = "set"
  /\ trace' = Append(trace, TurnCall(turn, SetCall(computed[turn].matchedEntities)))
  /\ LET stored == conversationSet(UserId, Namespace, computed[turn].matchedEntities)
     IN IF stored.ok
        THEN /\ users' = stored.value
             /\ pc' = [pc EXCEPT ![turn] = "entities"]
             /\ UNCHANGED <<status, outcome>>
        ELSE /\ RejectIn(turn)
             /\ UNCHANGED users
  /\ UNCHANGED <<entities, candidates, dialogEntities, computed, entry>>

\* await this.display(..., 'entities', {...}); if (missingEntities.length === 0)
executeWhenReadyDisplayIn(turn, ok) ==
  /\ pc[turn] = "entities"
  /\ trace' = Append(trace,
                     TurnCall(turn,
                              DisplayCall("entities",
                                [matchedEntities |-> computed[turn].matchedEntities,
                                 missingEntities |-> computed[turn].missingEntities])))
  /\ IF ~ok THEN RejectIn(turn)
     ELSE IF length(computed[turn].missingEntities) = Number(0)
          THEN ReturnIn(turn, STATUS_COMPLETED)
          ELSE ReturnIn(turn, STATUS_READY)
  /\ UNCHANGED <<entities, candidates, dialogEntities, computed, users, entry>>

InitTurns ==
  /\ entities \in TurnParameters
  /\ candidates = [turn \in Turns |-> <<>>]
  /\ dialogEntities = [turn \in Turns |-> EmptyObject]
  /\ computed = [turn \in Turns |-> NotComputed]
  /\ \E before \in StoredBefore :
       users = [u \in UserIds |->
                  [t |-> "user",
                   conversations |-> <<[NewConversation EXCEPT ![Namespace] = before]>>]]
  /\ status = [turn \in Turns |-> STATUS_READY]
  /\ entry = STATUS_READY
  /\ pc = [turn \in Turns |-> "idle"]
  /\ trace = <<>>
  /\ outcome = [turn \in Turns |-> [kind |-> "none", status |-> "none"]]

NextTurns ==
  \/ \E turn \in Turns :
       \E messageEntities \in ListsUpTo(ResolverCandidates, MaxTurnCandidates) :
         executeIn(turn, messageEntities)
  \/ \E turn \in Turns : executeWhenReadyGetIn(turn)
  \/ \E turn \in Turns : executeWhenReadySetIn(turn)
  \/ \E turn \in Turns : \E ok \in BOOLEAN : executeWhenReadyDisplayIn(turn, ok)

SpecTurns == InitTurns /\ [][NextTurns]_vars

\* ---------------------------------------------------- two-turn claims
\* the map stored under the namespace of the user's last conversation
Stored == conversationGet(UserId, Namespace).value

HasValue(v) == v \notin {Absent, Undefined, Null}

\* the turn's resolver gave a candidate to parameter n and n got a value
Matched(turn, n) ==
  /\ computed[turn] # NotComputed
  /\ computed[turn].consumed[n] # <<>>
  /\ HasValue(Get(computed[turn].matchedEntities, n))

Called(turn, op) ==
  \E i \in 1..Len(trace) : trace[i].turn = turn /\ trace[i].call.op = op

CalledAt(turn, op) ==
  CHOOSE i \in 1..Len(trace) : trace[i].turn = turn /\ trace[i].call.op = op

\* the turn's write went through: the turn is at, or past, its display
Persisted(turn) ==
  /\ Called(turn, "conversationSet")
  /\ pc[turn] = "entities" \/ Called(turn, "display")

\* both turns have written, first before second
WroteInOrder(first, second) ==
  /\ first # second
  /\ Persisted(first)
  /\ Persisted(second)
  /\ CalledAt(first, "conversationSet") < CalledAt(second, "conversationSet")

\* both turns loaded the stored map before either wrote it
BothLoadedBeforeEitherWrote(first, second) ==
  /\ CalledAt(second, "conversationGet") < CalledAt(first, "conversationSet")
  /\ CalledAt(first, "conversationGet") < CalledAt(second, "conversationSet")

\* the second turn loaded the stored map after the first had written it
OneAfterTheOther(first, second) ==
  CalledAt(first, "conversationSet") < CalledAt(second, "conversationGet")

\* C21: nothing keeps two READY turns of the same user and namespace from
\* interleaving at their awaits. Once both have written, the stored map is
\* the matchedEntities of the turn that wrote last, computed from what that
\* turn had loaded: if both loaded before either wrote, what the stored map
\* holds for a parameter is what the later writer computed without the
\* earlier write (so a parameter only the first turn matched can be left
\* without a value: C21_Witness); if the second turn loaded after the first
\* had written, every parameter either turn matched has a value in the
\* stored map.
C21_LastWriteWins ==
  \A first \in Turns : \A second \in Turns :
    WroteInOrder(first, second) =>
      /\ Stored = computed[second].matchedEntities
      /\ BothLoadedBeforeEitherWrote(first, second) =>
           /\ dialogEntities[second] = dialogEntities[first]
           /\ computed[second] =
                computeEntities(candidates[second], entities, dialogEntities[first])
      /\ OneAfterTheOther(first, second) =>
           /\ dialogEntities[second] = computed[first].matchedEntities
           /\ \A n \in Names :
                (Matched(first, n) \/ Matched(second, n)) => HasValue(Get(Stored, n))

\* the lost update: both turns loaded {}, t1 matched a and wrote, then t2,
\* which matched b only, wrote: a has no value in the stored map
C21_Witness ==
  /\ WroteInOrder("t1", "t2")
  /\ BothLoadedBeforeEitherWrote("t1", "t2")
  /\ Matched("t1", "a")
  /\ Matched("t2", "b")
  /\ ~HasValue(Get(Stored, "a"))
  /\ HasValue(Get(Stored, "b"))

\* the same two turns one after the other: the stored map has a and b
C21_SerialWitness ==
  /\ WroteInOrder("t1", "t2")
  /\ OneAfterTheOther("t1", "t2")
  /\ candidates["t1"] = <<Paris>>
  /\ candidates["t2"] = <<ParisLocation>>
  /\ Matched("t1", "a")
  /\ Matched("t2", "b")
  /\ HasValue(Get(Stored, "a"))
  /\ HasValue(Get(Stored, "b"))
====
